---- MODULE Spec2Model ----
(***************************************************************************)
(* Model of RobotDriver.py: one browsing session that loads a retail site, *)
(* searches for a fixed product term and reads the first displayed price.  *)
(* The program is a single sequential task; every await on the browser     *)
(* automation library is one step whose outcome (value or raised error) is *)
(* chosen by the environment.                                              *)
(***************************************************************************)
EXTENDS Integers, Sequences, FiniteSets, TLC

VARIABLES pc, calls, stdout, browser, response, handle, hcsRet, searchRet,
          priceRet, dom, exc

vars == <<pc, calls, stdout, browser, response, handle, hcsRet, searchRet,
          priceRet, dom, exc>>

----------------------------------------------------------------------------
(* Program constants *)

WEBSITE == "https://www.amazon.com/"
PRODUCT == "hand soap"

HcsWaitMs == 2000
ScrapeTimeoutMs == 10000

ContinueText == "text=Continue shopping"
ContinueButton == "role=button[name=Continue shopping]"
PrimaryInput == "input#twotabsearchtextbox"
FallbackInput == "input#nav-bb-bar"
SubmitButton == "#nav-search-submit-button"
PriceWhole == ".a-price-whole"
PriceDisplay == ".a-price .a-offscreen"

----------------------------------------------------------------------------
(* Bounds of the environment *)

MaxDom == 3

PriceTexts == {"$12.99", "$15.00"}

\* Errors the automation library raises from an awaited call (both are
\* subclasses of Exception).
ErrorKinds == {"TimeoutError", "Error"}

\* HTTP statuses of the final navigation response.
Statuses == {200, 404, 503}

----------------------------------------------------------------------------
(* The results page: elements in document order *)

Elements == [cls : {"a-price-whole", "a-offscreen"}, inPrice : BOOLEAN,
             text : PriceTexts]

Doms == UNION {[1..n -> Elements] : n \in 0..MaxDom}

\* Does element e match the CSS selector sel?
Matches(e, sel) ==
    CASE sel = PriceWhole -> e.cls = "a-price-whole"
      [] sel = PriceDisplay -> e.cls = "a-offscreen" /\ e.inPrice
      [] OTHER -> FALSE

\* Indices of the elements of d matching sel, in document order.
MatchIdx(d, sel) == {i \in 1..Len(d) : Matches(d[i], sel)}

Min(S) == CHOOSE x \in S : \A y \in S : x <= y
Max(S) == CHOOSE x \in S : \A y \in S : x >= y

----------------------------------------------------------------------------
(* Values returned by the library *)

NoResponse == [isNone |-> TRUE, status |-> 0]
Responses == {NoResponse} \cup {[isNone |-> FALSE, status |-> s] : s \in Statuses}

\* response.ok
Ok(r) == r.status >= 200 /\ r.status <= 299

Call(op, target, arg, timeout, out) ==
    [op |-> op, target |-> target, arg |-> arg, timeout |-> timeout, out |-> out]

Log(op, target, arg, timeout, out) == Append(calls, Call(op, target, arg, timeout, out))

----------------------------------------------------------------------------
(* Where control goes when an awaited call raises *)

\* run has no try block: the error leaves run.
RunHandler(kind) == "raised"

\* Variant: the scrape call wrapped so that the close step still runs.
ScrapeHandlerFinally(kind) == "run_close"

\* scrape_price has no try block: the error reaches its caller, run.
ScrapeHandler(kind) == RunHandler(kind)

\* Variant: except TimeoutError only.
SpHandlerTimeoutOnly(kind) ==
    IF kind = "TimeoutError" THEN "sp_except" ELSE RunHandler(kind)

\* search_product: try ... except Exception.
SpHandler(kind) == "sp_except"

\* Variant: handle_continue_shopping catching TimeoutError only.
HcsHandlerTimeoutOnly(kind) ==
    IF kind = "TimeoutError" THEN "hcs_except" ELSE SpHandler(kind)

\* handle_continue_shopping: try ... bare except.
HcsHandler(kind) == "hcs_except"

\* How the call of search_product stands after kind is raised inside it:
\* still running when its handler takes the error, terminated by the error
\* otherwise.
SpExit(kind) == IF SpHandler(kind) = "sp_except" THEN searchRet ELSE "raised"

\* Likewise for the call of handle_continue_shopping.
HcsExit(kind) == IF HcsHandler(kind) = "hcs_except" THEN hcsRet ELSE "raised"

\* Variant: the wait is skipped once the interstitial was dismissed.
AfterHandlerBranching(handled) == IF handled THEN "sp_fill" ELSE "sp_wait_selector"

\* The statement of search_product that follows the handler call; the
\* handler's return value is discarded.
AfterHandler(handled) == "sp_wait_selector"

\* Variant: if not response
ResponseFailsNoneOnly(r) == r.isNone

\* if not response or not response.ok
ResponseFails(r) == r.isNone \/ ~Ok(r)

\* Variant: a query that returns None instead of raising when nothing is found.
QuerySelector(out) ==
    CASE out = "found" -> [exc |-> "none", value |-> "ElementHandle"]
      [] out = "timeout" -> [exc |-> "none", value |-> "None"]
      [] OTHER -> [exc |-> "Error", value |-> "None"]

\* page.wait_for_selector (default state): the element handle once the
\* selector is found, TimeoutError when it is not, Error on another failure.
WaitForSelector(out) ==
    CASE out = "found" -> [exc |-> "none", value |-> "ElementHandle"]
      [] out = "timeout" -> [exc |-> "TimeoutError", value |-> "None"]
      [] OTHER -> [exc |-> "Error", value |-> "None"]

\* Truth value of what wait_for_selector returned.
Truthy(v) == v # "None"

\* Variant: the two selectors exchanged.
FillTargetSwapped(v) == IF Truthy(v) THEN FallbackInput ELSE PrimaryInput

\* The input search_product fills: the if/else on the wait's result.
FillTarget(v) == IF Truthy(v) THEN PrimaryInput ELSE FallbackInput

\* The text search_product types into the input.
FillText == PRODUCT

\* Variant: locator(sel).last
Last(d, sel) == Max(MatchIdx(d, sel))

\* locator(sel).first: index of the first match in document order.
First(d, sel) == Min(MatchIdx(d, sel))

\* locator(sel).first.text_content()
TextContent(d, sel) == d[First(d, sel)].text

\* Variant: the coroutine object tested instead of its awaited result.
RunBranchAlwaysTrue(ret) == "scrape_wait"

\* The branch run takes on search_product's result.
RunBranch(ret) == IF ret = "True" THEN "scrape_wait" ELSE "run_print_failed"

SuccessMessage(price) == "Success!\nHere are the prices for " \o PRODUCT \o ": " \o price
FailedMessage == "Failed to Search for " \o PRODUCT
SearchErrorMessage(kind) == "Search Error: " \o kind

----------------------------------------------------------------------------
Init ==
    /\ pc = "run_launch"
    /\ calls = <<>>
    /\ stdout = <<>>
    /\ browser = "none"
    /\ response = NoResponse
    /\ handle = "None"
    /\ hcsRet = "none"
    /\ searchRet = "none"
    /\ priceRet = [set |-> FALSE, text |-> ""]
    /\ dom = <<>>
    /\ exc = "none"

----------------------------------------------------------------------------
(* run *)

\* browser = await playwright.chromium.launch(headless=True)
RunLaunch ==
    /\ pc = "run_launch"
    /\ \E out \in {"ok"} \cup ErrorKinds :
         /\ calls' = Log("launch", "chromium", "headless", 0, out)
         /\ IF out = "ok"
              THEN browser' = "open" /\ pc' = "run_new_page" /\ exc' = exc
              ELSE browser' = browser /\ pc' = RunHandler(out) /\ exc' = out
    /\ UNCHANGED <<stdout, response, handle, hcsRet, searchRet, priceRet, dom>>

\* page = await browser.new_page()
RunNewPage ==
    /\ pc = "run_new_page"
    /\ \E out \in {"ok"} \cup ErrorKinds :
         /\ calls' = Log("new_page", "browser", "", 0, out)
         /\ IF out = "ok"
              THEN pc' = "sp_goto" /\ exc' = exc
              ELSE pc' = RunHandler(out) /\ exc' = out
    /\ UNCHANGED <<stdout, browser, response, handle, hcsRet, searchRet, priceRet, dom>>

\* if await search_product(page): ... else: ...
RunIf ==
    /\ pc = "run_if"
    /\ pc' = RunBranch(searchRet)
    /\ UNCHANGED <<calls, stdout, browser, response, handle, hcsRet, searchRet,
                   priceRet, dom, exc>>

\* print(f"Success!\nHere are the prices for {PRODUCT}: {price}")
RunPrintSuccess ==
    /\ pc = "run_print_success"
    /\ stdout' = Append(stdout, SuccessMessage(priceRet.text))
    /\ pc' = "run_close"
    /\ UNCHANGED <<calls, browser, response, handle, hcsRet, searchRet, priceRet,
                   dom, exc>>

\* print(f"Failed to Search for {PRODUCT}")
RunPrintFailed ==
    /\ pc = "run_print_failed"
    /\ stdout' = Append(stdout, FailedMessage)
    /\ pc' = "run_close"
    /\ UNCHANGED <<calls, browser, response, handle, hcsRet, searchRet, priceRet,
                   dom, exc>>

\* await browser.close()
RunClose ==
    /\ pc = "run_close"
    /\ \E out \in {"ok"} \cup ErrorKinds :
         /\ calls' = Log("close", "browser", "", 0, out)
         /\ IF out = "ok"
              THEN browser' = "closed" /\ pc' = "done" /\ exc' = exc
              ELSE browser' = browser /\ pc' = RunHandler(out) /\ exc' = out
    /\ UNCHANGED <<stdout, response, handle, hcsRet, searchRet, priceRet, dom>>

----------------------------------------------------------------------------
(* search_product *)

\* response = await page.goto(WEBSITE, wait_until="domcontentloaded")
SpGoto ==
    /\ pc = "sp_goto"
    /\ \/ \E r \in Responses :
            /\ calls' = Log("goto", WEBSITE, "domcontentloaded", 0,
                            IF r.isNone THEN "None" ELSE "response")
            /\ response' = r
            /\ pc' = "sp_check_response"
            /\ searchRet' = searchRet
            /\ exc' = exc
       \/ \E k \in ErrorKinds :
            /\ calls' = Log("goto", WEBSITE, "domcontentloaded", 0, k)
            /\ response' = response
            /\ pc' = SpHandler(k)
            /\ searchRet' = SpExit(k)
            /\ exc' = k
    /\ UNCHANGED <<stdout, browser, handle, hcsRet, priceRet, dom>>

\* if not response or not response.ok: return False
SpCheckResponse ==
    /\ pc = "sp_check_response"
    /\ IF ResponseFails(response)
         THEN searchRet' = "False" /\ pc' = "run_if"
         ELSE searchRet' = searchRet /\ pc' = "hcs_wait"
    /\ UNCHANGED <<calls, stdout, browser, response, handle, hcsRet, priceRet,
                   dom, exc>>

\* if await page.wait_for_selector("input#twotabsearchtextbox"):
SpWaitForSelector ==
    /\ pc = "sp_wait_selector"
    /\ \E out \in {"found", "timeout", "error"} :
         LET r == WaitForSelector(out) IN
         /\ calls' = Log("wait_for_selector", PrimaryInput, "", 0,
                         IF r.exc = "none" THEN r.value ELSE r.exc)
         /\ IF r.exc = "none"
              THEN /\ handle' = r.value /\ pc' = "sp_fill"
                   /\ searchRet' = searchRet /\ exc' = exc
              ELSE /\ handle' = handle /\ pc' = SpHandler(r.exc)
                   /\ searchRet' = SpExit(r.exc) /\ exc' = r.exc
    /\ UNCHANGED <<stdout, browser, response, hcsRet, priceRet, dom>>

\* await page.fill(<primary or fallback input>, PRODUCT)
SpFill ==
    /\ pc = "sp_fill"
    /\ \E out \in {"ok"} \cup ErrorKinds :
         /\ calls' = Log("fill", FillTarget(handle), FillText, 0, out)
         /\ IF out = "ok"
              THEN pc' = "sp_click" /\ searchRet' = searchRet /\ exc' = exc
              ELSE pc' = SpHandler(out) /\ searchRet' = SpExit(out) /\ exc' = out
    /\ UNCHANGED <<stdout, browser, response, handle, hcsRet, priceRet, dom>>

\* await page.click("#nav-search-submit-button"); return True
SpClick ==
    /\ pc = "sp_click"
    /\ \/ /\ calls' = Log("click", SubmitButton, "", 0, "ok")
          /\ searchRet' = "True"
          /\ dom' \in Doms
          /\ pc' = "run_if"
          /\ exc' = exc
       \/ \E k \in ErrorKinds :
            /\ calls' = Log("click", SubmitButton, "", 0, k)
            /\ searchRet' = SpExit(k)
            /\ dom' = dom
            /\ pc' = SpHandler(k)
            /\ exc' = k
    /\ UNCHANGED <<stdout, browser, response, handle, hcsRet, priceRet>>

\* except Exception as e: print("Search Error:", e); return False
SpExcept ==
    /\ pc = "sp_except"
    /\ stdout' = Append(stdout, SearchErrorMessage(exc))
    /\ searchRet' = "False"
    /\ exc' = "none"
    /\ pc' = "run_if"
    /\ UNCHANGED <<calls, browser, response, handle, hcsRet, priceRet, dom>>

----------------------------------------------------------------------------
(* handle_continue_shopping, called from search_product *)

\* await page.wait_for_timeout(2000)
HcsWaitForTimeout ==
    /\ pc = "hcs_wait"
    /\ \E out \in {"ok"} \cup ErrorKinds :
         /\ calls' = Log("wait_for_timeout", "page", "", HcsWaitMs, out)
         /\ IF out = "ok"
              THEN /\ pc' = "hcs_is_visible" /\ hcsRet' = hcsRet
                   /\ searchRet' = searchRet /\ exc' = exc
              ELSE /\ pc' = HcsHandler(out) /\ hcsRet' = HcsExit(out)
                   /\ searchRet' = IF HcsHandler(out) = "hcs_except"
                                     THEN searchRet ELSE SpExit(out)
                   /\ exc' = out
    /\ UNCHANGED <<stdout, browser, response, handle, priceRet, dom>>

\* if await page.is_visible("text=Continue shopping"):
HcsIsVisible ==
    /\ pc = "hcs_is_visible"
    /\ \E out \in {"True", "False"} \cup ErrorKinds :
         /\ calls' = Log("is_visible", ContinueText, "", 0, out)
         /\ CASE out = "True" ->
                   /\ pc' = "hcs_click" /\ hcsRet' = hcsRet
                   /\ searchRet' = searchRet /\ exc' = exc
              [] out = "False" ->
                   /\ pc' = "hcs_return_false" /\ hcsRet' = hcsRet
                   /\ searchRet' = searchRet /\ exc' = exc
              [] OTHER ->
                   /\ pc' = HcsHandler(out) /\ hcsRet' = HcsExit(out)
                   /\ searchRet' = IF HcsHandler(out) = "hcs_except"
                                     THEN searchRet ELSE SpExit(out)
                   /\ exc' = out
    /\ UNCHANGED <<stdout, browser, response, handle, priceRet, dom>>

\* await page.get_by_role("button", name="Continue shopping").click()
\* return True
HcsClick ==
    /\ pc = "hcs_click"
    /\ \E out \in {"ok"} \cup ErrorKinds :
         /\ calls' = Log("click", ContinueButton, "", 0, out)
         /\ IF out = "ok"
              THEN /\ pc' = AfterHandler(TRUE) /\ hcsRet' = "True"
                   /\ searchRet' = searchRet /\ exc' = exc
              ELSE /\ pc' = HcsHandler(out) /\ hcsRet' = HcsExit(out)
                   /\ searchRet' = IF HcsHandler(out) = "hcs_except"
                                     THEN searchRet ELSE SpExit(out)
                   /\ exc' = out
    /\ UNCHANGED <<stdout, browser, response, handle, priceRet, dom>>

\* except: pass
HcsExcept ==
    /\ pc = "hcs_except"
    /\ exc' = "none"
    /\ pc' = "hcs_return_false"
    /\ UNCHANGED <<calls, stdout, browser, response, handle, hcsRet, searchRet,
                   priceRet, dom>>

\* return False
HcsReturnFalse ==
    /\ pc = "hcs_return_false"
    /\ hcsRet' = "False"
    /\ pc' = AfterHandler(FALSE)
    /\ UNCHANGED <<calls, stdout, browser, response, handle, searchRet, priceRet,
                   dom, exc>>

----------------------------------------------------------------------------
(* scrape_price, called from run *)

\* await page.wait_for_selector(".a-price-whole", timeout=10000)
ScrapeWaitForSelector ==
    /\ pc = "scrape_wait"
    /\ \E out \in (IF MatchIdx(dom, PriceWhole) # {} THEN {"found"} ELSE {"timeout"})
                    \cup {"error"} :
         LET r == WaitForSelector(out) IN
         /\ calls' = Log("wait_for_selector", PriceWhole, "", ScrapeTimeoutMs,
                         IF r.exc = "none" THEN r.value ELSE r.exc)
         /\ IF r.exc = "none"
              THEN pc' = "scrape_text" /\ exc' = exc
              ELSE pc' = ScrapeHandler(r.exc) /\ exc' = r.exc
    /\ UNCHANGED <<stdout, browser, response, handle, hcsRet, searchRet, priceRet,
                   dom>>

\* prices = await page.locator(".a-price .a-offscreen").first.text_content()
\* return prices
ScrapeTextContent ==
    /\ pc = "scrape_text"
    /\ \/ /\ MatchIdx(dom, PriceDisplay) # {}
          /\ calls' = Log("text_content", PriceDisplay, "", 0, "ok")
          /\ priceRet' = [set |-> TRUE, text |-> TextContent(dom, PriceDisplay)]
          /\ pc' = "run_print_success"
          /\ exc' = exc
       \/ \E k \in (IF MatchIdx(dom, PriceDisplay) = {} THEN {"TimeoutError"} ELSE {})
                     \cup {"Error"} :
            /\ calls' = Log("text_content", PriceDisplay, "", 0, k)
            /\ priceRet' = priceRet
            /\ pc' = ScrapeHandler(k)
            /\ exc' = k
    /\ UNCHANGED <<stdout, browser, response, handle, hcsRet, searchRet, dom>>

----------------------------------------------------------------------------
Next ==
    \/ RunLaunch
    \/ RunNewPage
    \/ SpGoto
    \/ SpCheckResponse
    \/ HcsWaitForTimeout
    \/ HcsIsVisible
    \/ HcsClick
    \/ HcsExcept
    \/ HcsReturnFalse
    \/ SpWaitForSelector
    \/ SpFill
    \/ SpClick
    \/ SpExcept
    \/ RunIf
    \/ ScrapeWaitForSelector
    \/ ScrapeTextContent
    \/ RunPrintSuccess
    \/ RunPrintFailed
    \/ RunClose

Spec == Init /\ [][Next]_vars

----------------------------------------------------------------------------
(* Observations on the history of a run *)

Called(op, target) ==
    \E i \in DOMAIN calls : calls[i].op = op /\ calls[i].target = target

CalledWith(op, target, out) ==
    \E i \in DOMAIN calls :
        calls[i].op = op /\ calls[i].target = target /\ calls[i].out = out

Raised(op, target) == \E k \in ErrorKinds : CalledWith(op, target, k)

Printed(m) == \E i \in DOMAIN stdout : stdout[i] = m

IsSuccessMessage(m) ==
    \E t \in PriceTexts \cup {""} :
        m = "Success!\nHere are the prices for hand soap: " \o t

SuccessPrinted == \E i \in DOMAIN stdout : IsSuccessMessage(stdout[i])

FailedPrinted == Printed("Failed to Search for hand soap")

Terminated == pc \in {"done", "raised"}

HcsPcs == {"hcs_wait", "hcs_is_visible", "hcs_click", "hcs_except", "hcs_return_false"}

SpPcs == {"sp_goto", "sp_check_response", "sp_wait_selector", "sp_fill", "sp_click",
          "sp_except"} \cup HcsPcs

ScrapePcs == {"scrape_wait", "scrape_text"}

\* search_product was called and is over
SearchOver == Called("goto", WEBSITE) /\ pc \notin SpPcs

\* handle_continue_shopping was called / was called and is over
HcsInvoked == pc \in HcsPcs \/ Called("wait_for_timeout", "page")
HcsOver == HcsInvoked /\ pc \notin HcsPcs

\* scrape_price was called / was called and is over
ScrapeInvoked == pc \in ScrapePcs \/ Called("wait_for_selector", PriceWhole)
ScrapeOver == ScrapeInvoked /\ pc \notin ScrapePcs

\* page.goto returned (no response, or a response) and the result is falsy or
\* not ok
NavigationNotOk ==
    /\ CalledWith("goto", WEBSITE, "None") \/ CalledWith("goto", WEBSITE, "response")
    /\ response.isNone \/ response.status \notin 200..299

PrimaryFound == CalledWith("wait_for_selector", PrimaryInput, "ElementHandle")
PrimaryTimedOut == CalledWith("wait_for_selector", PrimaryInput, "TimeoutError")

FilledWith(target, text) ==
    \E i \in DOMAIN calls :
        calls[i].op = "fill" /\ calls[i].target = target /\ calls[i].arg = text

\* An awaited call made by search_product itself raised
SearchCallRaised ==
    \/ Raised("goto", WEBSITE)
    \/ Raised("wait_for_selector", PrimaryInput)
    \/ Raised("fill", PrimaryInput) \/ Raised("fill", FallbackInput)
    \/ Raised("click", SubmitButton)

\* An awaited call made by handle_continue_shopping raised
HcsCallRaised ==
    \/ Raised("wait_for_timeout", "page")
    \/ Raised("is_visible", ContinueText)
    \/ Raised("click", ContinueButton)

ScrapeWaitTimedOut ==
    searchRet = "True" /\ CalledWith("wait_for_selector", PriceWhole, "TimeoutError")

\* d has a first element matching the price-display pattern, at index i
FirstPriceAt(d, i) ==
    /\ i \in 1..Len(d)
    /\ d[i].cls = "a-offscreen" /\ d[i].inPrice
    /\ \A j \in 1..(i - 1) : ~(d[j].cls = "a-offscreen" /\ d[j].inPrice)

----------------------------------------------------------------------------
(* Claims *)

\* C1: every run that launched the browser and got a result from
\* search_product has executed browser.close() by the time it ends.
C1_ClosedWhenRunEnds ==
    (Terminated /\ searchRet \in {"True", "False"}) => Called("close", "browser")

C3_NoExceptionEscapesSearch ==
    /\ searchRet # "raised"
    /\ (SearchCallRaised \/ hcsRet = "raised") =>
          \/ pc = "sp_except"
          \/ /\ searchRet = "False"
             /\ \E k \in ErrorKinds : Printed("Search Error: " \o k)

C3_Witness ==
    /\ Raised("click", SubmitButton)
    /\ searchRet = "False"
    /\ pc = "run_print_failed"

\* C4: if page.goto yielded no response or a response that is not ok,
\* search_product returns False at once: no handler call, no wait for the
\* search input, no fill and no click of the submit control is ever performed.
C4_NavigationFailureReturnsAtOnce ==
    NavigationNotOk =>
        /\ pc # "sp_check_response" => searchRet = "False"
        /\ ~HcsInvoked
        /\ ~Called("wait_for_selector", PrimaryInput)
        /\ ~Called("fill", PrimaryInput)
        /\ ~Called("fill", FallbackInput)
        /\ ~Called("click", SubmitButton)

C4_Witness ==
    /\ NavigationNotOk
    /\ response.status = 503
    /\ pc = "done"

\* C5: handle_continue_shopping never raises to its caller; once it is over it
\* has returned True or False; False whenever the affordance was not visible
\* or one of its calls failed; True only when the affordance was visible and the
\* click completed without error.
C5_HandlerNeverRaises ==
    /\ hcsRet # "raised"
    /\ HcsOver => hcsRet \in {"True", "False"}
    /\ (HcsOver /\ (CalledWith("is_visible", ContinueText, "False") \/ HcsCallRaised))
          => hcsRet = "False"
    /\ hcsRet = "True" =>
          /\ CalledWith("is_visible", ContinueText, "True")
          /\ CalledWith("click", ContinueButton, "ok")

C5_Witness ==
    /\ Raised("click", ContinueButton)
    /\ hcsRet = "False"
    /\ pc = "sp_wait_selector"

\* C6: whenever search_product signalled failure, scrape_price is never
\* invoked, the success message is never printed, and once run is past its
\* branch the failure message naming the product term has been printed.
C6_FailureBranch ==
    searchRet = "False" =>
        /\ ~ScrapeInvoked
        /\ ~Called("text_content", PriceDisplay)
        /\ ~SuccessPrinted
        /\ pc \in {"run_close", "done", "raised"} => FailedPrinted

C6_Witness ==
    /\ searchRet = "False"
    /\ response.status = 503
    /\ FailedPrinted
    /\ pc = "done"

\* C7 as stated: once the primary search input was found by the wait and
\* search_product is over, the input was filled with the product term and
\* search_product returned True.
C7_FoundImpliesTrue ==
    (PrimaryFound /\ SearchOver) =>
        /\ FilledWith(PrimaryInput, "hand soap")
        /\ searchRet = "True"

\* C7 amended: once the primary search input was found, search_product fills
\* that input with the product term; it returns True when the fill and the
\* click of the submit control complete without error.
C7_FoundAndNoErrorImpliesTrue ==
    /\ (PrimaryFound /\ pc # "sp_fill") => FilledWith(PrimaryInput, "hand soap")
    /\ (/\ PrimaryFound
        /\ CalledWith("fill", PrimaryInput, "ok")
        /\ CalledWith("click", SubmitButton, "ok")) => searchRet = "True"

C7_Witness ==
    /\ PrimaryFound
    /\ CalledWith("click", SubmitButton, "ok")
    /\ FilledWith(PrimaryInput, "hand soap")
    /\ searchRet = "True"
    /\ pc = "run_if"

\* C8 as stated: on a page with at least one element matching the
\* price-display pattern, scrape_price, once over, has returned the text of the
\* first such element.
C8_FirstPriceReturned ==
    (ScrapeOver /\ \E i \in 1..Len(dom) : FirstPriceAt(dom, i)) =>
        \E i \in 1..Len(dom) :
            FirstPriceAt(dom, i) /\ priceRet = [set |-> TRUE, text |-> dom[i].text]

\* C8 amended: on a page with at least one element matching the price-display
\* pattern on which the readiness wait for .a-price-whole succeeded and the
\* read of the text did not fail, scrape_price has returned the text of the
\* first such element in document order, unchanged.
C8_FirstPriceReturnedWhenReady ==
    (/\ ScrapeOver
     /\ \E i \in 1..Len(dom) : FirstPriceAt(dom, i)
     /\ CalledWith("wait_for_selector", PriceWhole, "ElementHandle")
     /\ ~Raised("text_content", PriceDisplay)) =>
        \E i \in 1..Len(dom) :
            FirstPriceAt(dom, i) /\ priceRet = [set |-> TRUE, text |-> dom[i].text]

C8_Witness ==
    /\ ScrapeOver
    /\ \E i, j \in 1..Len(dom) :
          /\ FirstPriceAt(dom, i) /\ dom[i].text = "$12.99"
          /\ j > i /\ dom[j].cls = "a-offscreen" /\ dom[j].inPrice
          /\ dom[j].text = "$15.00"
    /\ priceRet = [set |-> TRUE, text |-> "$12.99"]

\* C9: the secondary input is never filled; when the wait for the primary
\* input timed out, nothing is filled and search_product is in its handler or
\* has returned False after logging the timeout.
C9_FallbackUnreachable ==
    /\ ~Called("fill", FallbackInput)
    /\ PrimaryTimedOut =>
          /\ ~Called("fill", PrimaryInput)
          /\ \/ pc = "sp_except"
             \/ searchRet = "False" /\ Printed("Search Error: TimeoutError")

C9_Witness ==
    /\ PrimaryTimedOut
    /\ searchRet = "False"
    /\ pc = "run_print_failed"

\* C10 as stated: the interstitial handler is invoked in every execution of
\* search_product.
C10_HandlerInEveryExecution == SearchOver => HcsInvoked

\* C10 amended: the interstitial handler is invoked in every execution of
\* search_product whose navigation returned an ok response, before the wait
\* for the search input; whatever it returned, the next step is that wait and
\* the value search_product returns is decided by the wait, the fill and the
\* click alone.
C10_HandlerUnconditional ==
    /\ (SearchOver /\ CalledWith("goto", WEBSITE, "response") /\ ~NavigationNotOk)
          => HcsOver
    /\ \A i \in DOMAIN calls :
          (calls[i].op = "wait_for_selector" /\ calls[i].target = PrimaryInput) =>
              /\ \E j \in 1..(i - 1) : calls[j].op = "wait_for_timeout"
              /\ hcsRet \in {"True", "False"}
    /\ (HcsOver /\ ~Called("wait_for_selector", PrimaryInput))
          => pc = "sp_wait_selector"
    /\ (HcsOver /\ SearchOver) =>
          (searchRet = "True" <=>
              /\ PrimaryFound
              /\ CalledWith("fill", PrimaryInput, "ok")
              /\ CalledWith("click", SubmitButton, "ok"))

C10_Witness ==
    /\ hcsRet = "True"
    /\ searchRet = "True"
    /\ pc = "run_if"

====
